---- MODULE Spec2Model ----
(***************************************************************************)
(* Model of the vectorscope pattern-to-waveform programs:                  *)
(*   src/vectorscope.py        (editor with projects, video + image export) *)
(*   src/vectorscope_video.py  (editor with video export only)              *)
(*                                                                         *)
(* Numbers.  Coordinates and amplitudes of an N x N grid are multiples of  *)
(* 1/(2(N-1)); a real value v is held as the integer v * Unit(N), so 1.0   *)
(* is Unit(N) and the halving in xy_to_stereo is an exact integer          *)
(* division.  A stereo sample is a pair <<left, right>> of such integers.  *)
(* Sample counts are plain integers.  FRAME_DURATION and IMAGE_DURATION    *)
(* are held in milliseconds.                                               *)
(*                                                                         *)
(* These exact values carry the sample pipeline, whose properties do not   *)
(* depend on rounding.  What Python's floats (IEEE binary64) compute for   *)
(* the coordinates and for xy_to_stereo, rounding included, is modelled    *)
(* separately in the section BINARY64.                                     *)
(***************************************************************************)
EXTENDS Integers, Sequences, FiniteSets, TLC

VARIABLES
    variant,        \* which program runs: "vectorscope" or "video"
    frames,         \* MatrixGUI.frames: sequence of matrices (sequences of rows)
    current_frame,  \* MatrixGUI.current_frame, 0-based
    draw_value,     \* MatrixGUI.draw_value: <<>> is None, <<v>> is the value v
    project_path,   \* MatrixGUI.project_path: <<>> is None, <<p>> is the path p
    lastOp,         \* the handler or function that ran last
    msg,            \* the message box that handler showed ("none" if none)
    wav,            \* the sf.write calls that handler made, in order
    blocks,         \* what create_base_block returned to that handler, call by call
    block,          \* a base block, as create_base_block returns it
    target,         \* a target length in samples
    fitted,         \* the array the tile-and-slice code produced
    pts,            \* the list matrix_to_points returned
    stereo          \* the last xy_to_stereo call: its arguments and its result

vars == <<variant, frames, current_frame, draw_value, project_path,
          lastOp, msg, wav, blocks, block, target, fitted, pts, stereo>>

(***************************************************************************)
(* SETTINGS                                                                *)
(***************************************************************************)
MAT_SIZE == 16

SAMPLE_RATE == 44100

FRAME_DURATION_MS == 125

IMAGE_DURATION_MS == 30000

CELL_SIZE_VECTORSCOPE == 20

CELL_SIZE_VIDEO == 30

PADDING_VECTORSCOPE == 1

PADDING_VIDEO == 2

CELL_SIZE(v) == IF v = "vectorscope" THEN CELL_SIZE_VECTORSCOPE ELSE CELL_SIZE_VIDEO

PADDING(v) == IF v = "vectorscope" THEN PADDING_VECTORSCOPE ELSE PADDING_VIDEO

K_VECTORSCOPE == 100

K_VIDEO == 40

N_SAMPLES_PER_PIXEL(v) == IF v = "vectorscope" THEN K_VECTORSCOPE ELSE K_VIDEO

Variants == {"vectorscope", "video"}

(***************************************************************************)
(* Bounds of the model                                                     *)
(***************************************************************************)
MaxB == 3
MaxT == 5
MaxN == 2
MaxSeq == 3
MaxFrames == 2

(***************************************************************************)
(* Arithmetic helpers                                                      *)
(***************************************************************************)
Min(a, b) == IF a < b THEN a ELSE b

Max(a, b) == IF a > b THEN a ELSE b

\* 1.0 in the fixed-point unit of an n x n grid
Unit(n) == 2 * (n - 1)

\* rounding of num/den to the nearest integer, ties away from zero (num, den >= 0)
RoundHalfUp(num, den) == (2 * num + den) \div (2 * den)

\* int(x) of a non-negative quotient num/den: truncation
IntTrunc(num, den) == num \div den

FloorDiv(a, b) == a \div b

\* int(np.ceil(a / b)) for a >= 0, b > 0
Ceil(a, b) == (a + b - 1) \div b

\* the sample left as drawn
NoClip(v, one) == v

\* np.clip(v, -1, 1) in the unit one
Clip(v, one) == Max(-one, Min(one, v))

\* samples_frame = int(FRAME_DURATION * SAMPLE_RATE)
samples_frame == IntTrunc(FRAME_DURATION_MS * SAMPLE_RATE, 1000)

\* total_samples = int(IMAGE_DURATION * SAMPLE_RATE)
total_samples == IntTrunc(IMAGE_DURATION_MS * SAMPLE_RATE, 1000)

(***************************************************************************)
(* Arrays                                                                  *)
(***************************************************************************)
\* np.zeros((n, 2), np.float32)
Zeros(n) == [i \in 1..n |-> <<0, 0>>]

\* np.repeat(a, reps, axis=0): every row reps times in place
Repeat(a, reps) == [i \in 1..(Len(a) * reps) |-> a[((i - 1) \div reps) + 1]]

RECURSIVE Tile(_, _)
\* np.tile(a, (reps, 1)): the rows of a, reps times end to end
\* (built by halving reps, which keeps the nesting shallow)
Tile(a, reps) ==
    IF reps <= 0 THEN <<>>
    ELSE IF reps = 1 THEN a
    ELSE LET half == Tile(a, reps \div 2)
         IN  IF reps % 2 = 0 THEN half \o half ELSE half \o half \o a

\* a[:n]
Slice(a, n) == SubSeq(a, 1, Min(n, Len(a)))

RECURSIVE VStackReversed(_)
\* the segments stacked last first
VStackReversed(segs) ==
    IF segs = <<>> THEN <<>> ELSE VStackReversed(Tail(segs)) \o Head(segs)

RECURSIVE VStack(_)
\* np.vstack(segments)
VStack(segs) == IF segs = <<>> THEN <<>> ELSE Head(segs) \o VStack(Tail(segs))

\* a base block as create_base_block returns it: (None, 0) or (array, total)
NoneBlock == [none |-> TRUE, data |-> <<>>, total |-> 0]

ArrayBlock(d) == [none |-> FALSE, data |-> d, total |-> Len(d)]

\* the duration fitting shared by the export paths
DurationFit(blk, T) ==
    IF blk.total = 0
    THEN Zeros(T)
    ELSE Slice(Tile(blk.data, Ceil(T, blk.total)), T)

(***************************************************************************)
(* SpecFit: the tile-and-slice code applied to every small block and target *)
(***************************************************************************)
SampleVals == {<<-7, 7>>, <<3, 0>>, <<30, -30>>}

BlocksUpTo(n) ==
    {NoneBlock} \cup
    UNION {{ArrayBlock(d) : d \in [1..b -> SampleVals]} : b \in 1..n}

Idle ==
    /\ variant = "vectorscope"
    /\ frames = <<>>
    /\ current_frame = 0
    /\ draw_value = <<>>
    /\ project_path = <<>>
    /\ msg = "none"
    /\ wav = <<>>
    /\ blocks = <<>>

editorVars == <<variant, frames, current_frame, draw_value, project_path>>

InitFit ==
    /\ Idle
    /\ lastOp = "init"
    /\ block \in BlocksUpTo(MaxB)
    /\ target \in 1..MaxT
    /\ fitted = <<>>
    /\ pts = <<>>
    /\ stereo = <<>>

Fit ==
    /\ lastOp = "init"
    /\ lastOp' = "fit"
    /\ fitted' = DurationFit(block, target)
    /\ UNCHANGED <<editorVars, msg, wav, blocks, block, target, pts, stereo>>

NextFit == Fit

SpecFit == InitFit /\ [][NextFit]_vars

\* C1: the fitted segment has exactly T rows for every B >= 0 and T > 0, and
\* when B = 0 every sample of both channels is 0.
FitLengthExact ==
    lastOp = "fit" =>
        /\ Len(fitted) = target
        /\ block.total = 0 =>
               \A t \in 1..Len(fitted) : fitted[t][1] = 0 /\ fitted[t][2] = 0

FitLengthWitness ==
    /\ lastOp = "fit"
    /\ block.total = MaxB
    /\ target = MaxT
    /\ Len(fitted) = MaxT

\* C8: for B > 0 the output row at index t (0-based) is the base-block row at
\* index t mod B, in both channels, so no index at or beyond B is read.
FitIsTiling ==
    (lastOp = "fit" /\ block.total > 0) =>
        \A t \in 0..(target - 1) :
            /\ t + 1 \in DOMAIN fitted
            /\ (t % block.total) + 1 \in DOMAIN block.data
            /\ fitted[t + 1] = block.data[(t % block.total) + 1]

FitIsTilingWitness ==
    /\ lastOp = "fit"
    /\ block.total = 2
    /\ target = 5
    /\ block.data[1] # block.data[2]
    /\ fitted[5] = block.data[1]

(***************************************************************************)
(* CONVERSION FUNCTIONS                                                    *)
(***************************************************************************)
\* the test matrix_to_points applies to a cell: `if mat[r][c]` in
\* vectorscope.py (any non-zero integer is true), `== 1` in vectorscope_video.py
IsActive(v, cell) == IF v = "vectorscope" THEN cell # 0 ELSE cell = 1

\* H = len(mat)
Height(mat) == Len(mat)

\* W = len(mat[0]) if mat else 0
Width(mat) == IF Len(mat) > 0 THEN Len(mat[1]) ELSE 0

\* x = (2 * c) / (W - 1) - 1.0, in the unit of the grid
XCoord(c, W) == ((2 * c) * Unit(W)) \div (W - 1) - Unit(W)

\* y = -((2 * r) / (H - 1) - 1.0), in the unit of the grid
YCoord(r, H) == -(((2 * r) * Unit(H)) \div (H - 1) - Unit(H))

\* the cell visited k-th (0-based) by `for r in range(H): for c in range(W)`
RowMajorCell(k, H, W) == <<k \div W, k % W>>

\* the cell visited k-th by the loops nested the other way round
ColMajorCell(k, H, W) == <<k % H, k \div H>>

LoopCell(k, H, W) == RowMajorCell(k, H, W)

RECURSIVE PointsFrom(_, _, _, _)
\* the points appended while the loops visit their lo-th to hi-th cell, in
\* visiting order (the range is split in two, which keeps the nesting shallow)
PointsFrom(mat, v, lo, hi) ==
    LET H == Height(mat)
        W == Width(mat)
    IN  IF lo > hi
        THEN <<>>
        ELSE IF lo = hi
        THEN LET rc == LoopCell(lo, H, W)
                 r  == rc[1]
                 c  == rc[2]
             IN  IF IsActive(v, mat[r + 1][c + 1])
                 THEN <<<<XCoord(c, W), YCoord(r, H)>>>>
                 ELSE <<>>
        ELSE LET mid == (lo + hi) \div 2
             IN  PointsFrom(mat, v, lo, mid) \o PointsFrom(mat, v, mid + 1, hi)

matrix_to_points(mat, v) == PointsFrom(mat, v, 0, Height(mat) * Width(mat) - 1)

\* (L_amp, R_amp) = ((y - x) / 2.0, (x + y) / 2.0)
xy_to_stereo(x, y) == <<(y - x) \div 2, (x + y) \div 2>>

(***************************************************************************)
(* The noise source.  np.random.normal(amp, SIGMA, K) may return any reals; *)
(* a draw is one of these shapes, given before clipping for the i-th of the *)
(* K samples (0-based) of one channel, in the unit `one`.                   *)
(***************************************************************************)
NoiseKinds == {"mean", "high", "low", "alt"}

Draw(kind, amp, i, one) ==
    CASE kind = "mean" -> amp
      [] kind = "high" -> amp + 3 * one
      [] kind = "low"  -> amp - 3 * one
      [] OTHER         -> IF i % 2 = 0 THEN amp + 1 ELSE amp - 1

\* the samples of one channel after np.clip(..., -1, 1)
ClippedDraw(kind, amp, i, one) == Clip(Draw(kind, amp, i, one), one)

\* the n-th (0-based) of the K rows written for one amplitude pair: nL[n], nR[n]
PixelRow(kind, amps, n, one) ==
    <<ClippedDraw(kind, amps[1], n, one), ClippedDraw(kind, amps[2], n, one)>>

\* the loop over amps: the j-th amplitude pair (0-based) fills rows
\* idx .. idx+K-1 with idx = j * K
FillBlock(kind, amps, K, one) ==
    [i \in 1..(Len(amps) * K) |->
        PixelRow(kind, amps[((i - 1) \div K) + 1], (i - 1) % K, one)]

create_base_block(matrix, v, kind) ==
    LET points == matrix_to_points(matrix, v)
        K      == N_SAMPLES_PER_PIXEL(v)
        amps   == [i \in 1..Len(points) |-> xy_to_stereo(points[i][1], points[i][2])]
    IN  IF Len(points) = 0
        THEN NoneBlock
        ELSE [none  |-> FALSE,
              data  |-> FillBlock(kind, amps, K, Unit(Height(matrix))),
              total |-> Len(points) * K]

(***************************************************************************)
(* Patterns                                                                *)
(***************************************************************************)
\* an n x n matrix with value f[<<r, c>>] at row r, column c (0-based)
MatrixOf(n, f) == [r \in 1..n |-> [c \in 1..n |-> f[<<r - 1, c - 1>>]]]

Cells(n) == (0..(n - 1)) \X (0..(n - 1))

\* [[0]*MAT_SIZE for _ in range(MAT_SIZE)]
BlankMatrix == MatrixOf(MAT_SIZE, [rc \in Cells(MAT_SIZE) |-> 0])

FullMatrix == MatrixOf(MAT_SIZE, [rc \in Cells(MAT_SIZE) |-> 1])

\* the top nine rows active: 144 cells, a base block longer than one frame
\* in both programs (144 * K_VIDEO = 5760 > 5512)
DenseMatrix ==
    MatrixOf(MAT_SIZE, [rc \in Cells(MAT_SIZE) |-> IF rc[1] < 9 THEN 1 ELSE 0])

\* the MAT_SIZE x MAT_SIZE pattern whose active cells are exactly S
PatternOf(S) == MatrixOf(MAT_SIZE, [rc \in Cells(MAT_SIZE) |-> IF rc \in S THEN 1 ELSE 0])

ProbeCells == {<<0, 0>>, <<0, 15>>, <<15, 15>>, <<7, 8>>, <<7, 3>>}

SparsePatterns == {PatternOf(S) : S \in SUBSET ProbeCells}

ProbePatterns == SparsePatterns \cup {FullMatrix}

AllBinary(n) == {MatrixOf(n, f) : f \in [Cells(n) -> {0, 1}]}

\* the number of cells of mat equal to 1
ActiveCount(mat) ==
    Cardinality({rc \in Cells(Height(mat)) : mat[rc[1] + 1][rc[2] + 1] = 1})

(***************************************************************************)
(* SpecPts: matrix_to_points applied to every binary N x N matrix,         *)
(* 2 <= N <= MaxN, and to the sparse MAT_SIZE x MAT_SIZE patterns          *)
(***************************************************************************)
NoOutput ==
    /\ msg = "none"
    /\ wav = <<>>
    /\ blocks = <<>>
    /\ block = NoneBlock
    /\ target = 0
    /\ fitted = <<>>
    /\ pts = <<>>
    /\ stereo = <<>>

InitPts ==
    /\ variant \in Variants
    /\ \E m \in SparsePatterns \cup UNION {AllBinary(n) : n \in 2..MaxN} : frames = <<m>>
    /\ current_frame = 0
    /\ draw_value = <<>>
    /\ project_path = <<>>
    /\ lastOp = "init"
    /\ NoOutput

CallMatrixToPoints ==
    /\ lastOp = "init"
    /\ lastOp' = "matrix_to_points"
    /\ pts' = matrix_to_points(frames[1], variant)
    /\ UNCHANGED <<editorVars, msg, wav, blocks, block, target, fitted, stereo>>

NextPts == CallMatrixToPoints

SpecPts == InitPts /\ [][NextPts]_vars

\* the cells of mat equal to 1
ActiveCells(mat) == {rc \in Cells(Height(mat)) : mat[rc[1] + 1][rc[2] + 1] = 1}

\* rc comes before sd in row-major order
RowMajorBefore(rc, sd) == rc[1] < sd[1] \/ (rc[1] = sd[1] /\ rc[2] < sd[2])

\* the 1-based place of the active cell rc among the active cells, row-major
RowMajorRank(mat, rc) ==
    1 + Cardinality({sd \in ActiveCells(mat) : RowMajorBefore(sd, rc)})

\* C10: matrix_to_points returns exactly the active cells in row-major order,
\* the cell (row, col) as x = 2 col/(N-1) - 1, y = -(2 row/(N-1) - 1); cell (0,0)
\* is (-1,+1), cell (N-1,N-1) is (+1,-1), x strictly increases with col, y
\* strictly decreases with row, and inactive cells give no point.
PointsRowMajorAffine ==
    lastOp = "matrix_to_points" =>
        LET mat == frames[1]
            N   == Height(mat)
            one == Unit(N)
            act == ActiveCells(mat)
            at  == [rc \in act |-> RowMajorRank(mat, rc)]
            P(rc) == pts[at[rc]]
        IN  /\ Len(pts) = Cardinality(act)
            /\ \A rc \in act :
                   /\ at[rc] \in DOMAIN pts
                   /\ P(rc)[1] * (N - 1) = (2 * rc[2] - (N - 1)) * one
                   /\ P(rc)[2] * (N - 1) = -((2 * rc[1] - (N - 1)) * one)
            /\ <<0, 0>> \in act => pts[1] = <<-one, one>>
            /\ <<N - 1, N - 1>> \in act => pts[Len(pts)] = <<one, -one>>
            /\ \A rc, sd \in act :
                   /\ rc[2] < sd[2] => P(rc)[1] < P(sd)[1]
                   /\ rc[1] < sd[1] => P(rc)[2] > P(sd)[2]

PointsWitness ==
    /\ lastOp = "matrix_to_points"
    /\ Height(frames[1]) = MAT_SIZE
    /\ ActiveCells(frames[1]) = {<<0, 0>>, <<0, 15>>, <<7, 3>>, <<15, 15>>}
    /\ pts = << <<-30, 30>>, <<30, 30>>, <<-18, 2>>, <<30, -30>> >>

(***************************************************************************)
(* SpecBlock: create_base_block applied to the probe patterns under every  *)
(* shape of noise                                                          *)
(***************************************************************************)
InitBlock ==
    /\ variant \in Variants
    /\ \E m \in ProbePatterns : frames = <<m>>
    /\ current_frame = 0
    /\ draw_value = <<>>
    /\ project_path = <<>>
    /\ lastOp = "init"
    /\ NoOutput

CallCreateBaseBlock ==
    /\ lastOp = "init"
    /\ lastOp' = "create_base_block"
    /\ \E kind \in NoiseKinds :
           blocks' = <<create_base_block(frames[1], variant, kind)>>
    /\ UNCHANGED <<editorVars, msg, wav, block, target, fitted, pts, stereo>>

NextBlock == CallCreateBaseBlock

SpecBlock == InitBlock /\ [][NextBlock]_vars

InRange(sample, one) ==
    /\ -one <= sample[1] /\ sample[1] <= one
    /\ -one <= sample[2] /\ sample[2] <= one

\* C9: for a pattern with A active cells create_base_block yields A x K samples
\* per channel, each in [-1, +1] whatever the noise source draws, and for A = 0
\* it returns (None, 0), not a zero-length array.
BaseBlockShape ==
    lastOp = "create_base_block" =>
        LET mat == frames[1]
            A   == ActiveCount(mat)
            K   == N_SAMPLES_PER_PIXEL(variant)
            b   == blocks[1]
        IN  IF A = 0
            THEN b.none /\ b.total = 0
            ELSE /\ ~b.none
                 /\ b.total = A * K
                 /\ Len(b.data) = A * K
                 /\ \A i \in 1..Len(b.data) : InRange(b.data[i], Unit(Height(mat)))

\* a draw above +1 was clipped in a block of three active cells
BaseBlockWitness ==
    /\ lastOp = "create_base_block"
    /\ ActiveCount(frames[1]) = 3
    /\ ~blocks[1].none
    /\ blocks[1].total = 3 * N_SAMPLES_PER_PIXEL(variant)
    /\ \E i \in 1..Len(blocks[1].data) : blocks[1].data[i][1] = Unit(MAT_SIZE)

(***************************************************************************)
(* EXPORT                                                                  *)
(***************************************************************************)
\* sf.write(output_wav, final, SAMPLE_RATE, subtype=...)
SfWrite(final) == [rate |-> SAMPLE_RATE, rows |-> Len(final), data |-> final]

\* the test for an empty list left out
NeverNoFrames(frs) == FALSE

\* `if not frames` / `if len(frames) == 0`
NoFrames(frs) == Len(frs) = 0

\* the body of the loop `for mat in frames`, for every frame: the segment
\* appended for the base block bl[i]
Segments(bl) == [i \in 1..Len(bl) |-> DurationFit(bl[i], samples_frame)]

\* the function as a step: the message box shown, the sf.write calls made and
\* the base blocks create_base_block returned
generate_video_wav_from_frames(frs, v, kind) ==
    IF NoFrames(frs)
    THEN /\ msg' = "warning: No frames to export!"
         /\ wav' = <<>>
         /\ blocks' = <<>>
    ELSE /\ blocks' = [i \in 1..Len(frs) |-> create_base_block(frs[i], v, kind)]
         /\ wav' = <<SfWrite(VStack(Segments(blocks')))>>
         /\ msg' = "info: Video WAV generated"

(***************************************************************************)
(* SpecVideo: generate_video_wav_from_frames applied to every sequence of  *)
(* at most MaxSeq video patterns, the empty sequence included              *)
(***************************************************************************)
VideoPatterns == {BlankMatrix, PatternOf({<<0, 0>>}), DenseMatrix}

SeqsUpTo(S, n) == UNION {[1..k -> S] : k \in 0..n}

VideoNoise == {"mean", "alt"}

InitVideo ==
    /\ variant \in Variants
    /\ frames \in SeqsUpTo(VideoPatterns, MaxSeq)
    /\ current_frame = 0
    /\ draw_value = <<>>
    /\ project_path = <<>>
    /\ lastOp = "init"
    /\ NoOutput

CallGenerateVideo ==
    /\ lastOp = "init"
    /\ lastOp' = "generate_video_wav_from_frames"
    /\ \E kind \in VideoNoise : generate_video_wav_from_frames(frames, variant, kind)
    /\ UNCHANGED <<editorVars, block, target, fitted, pts, stereo>>

NextVideo == CallGenerateVideo

SpecVideo == InitVideo /\ [][NextVideo]_vars

Generated == lastOp = "generate_video_wav_from_frames"

DurationIsExact ==
    (Generated /\ Len(frames) > 0) =>
        /\ Len(wav) = 1
        /\ wav[1].rows * 1000 = Len(frames) * FRAME_DURATION_MS * wav[1].rate

\* C4 amended: totalSamples / sampleRate falls short of frameCount x
\* frameDurationSeconds by half a sample period per frame.
DurationHalfSampleShort ==
    (Generated /\ Len(frames) > 0) =>
        /\ Len(wav) = 1
        /\ wav[1].rate = SAMPLE_RATE
        /\ 2 * (Len(frames) * FRAME_DURATION_MS * wav[1].rate - wav[1].rows * 1000)
               = Len(frames) * 1000

DurationWitness ==
    /\ Generated
    /\ Len(frames) = 2
    /\ wav # <<>>
    /\ wav[1].rows * 1000 = 11024000
    /\ Len(frames) * FRAME_DURATION_MS * wav[1].rate = 11025000

\* C6: called with an empty frame list, generate_video_wav_from_frames returns
\* after the warning: no sf.write call and no segment built.
EmptySequenceWritesNothing ==
    (Generated /\ Len(frames) = 0) =>
        /\ msg = "warning: No frames to export!"
        /\ wav = <<>>
        /\ blocks = <<>>

EmptySequenceWitness ==
    /\ Generated
    /\ frames = <<>>
    /\ msg = "warning: No frames to export!"

\* C7: with F samples per frame, output rows [i F, (i+1) F) are the fitted
\* block of frame i: row t of them is row t mod B of that frame's base block,
\* and is 0 in both channels when frame i has no active cell; the frames after
\* an empty frame are synthesized and not shifted.
FramesInOrder ==
    (Generated /\ Len(frames) > 0) =>
        LET F    == samples_frame
            data == wav[1].data
        IN  /\ Len(blocks) = Len(frames)
            /\ Len(data) = Len(frames) * F
            /\ \A i \in 0..(Len(frames) - 1) :
                   LET b == blocks[i + 1]
                   IN  /\ b.none <=> ActiveCount(frames[i + 1]) = 0
                       /\ b.none =>
                              \A t \in 1..F : data[i * F + t] = <<0, 0>>
                       /\ ~b.none =>
                              \A t \in 0..(F - 1) :
                                  data[i * F + t + 1] = b.data[(t % b.total) + 1]

FramesInOrderWitness ==
    /\ Generated
    /\ Len(frames) = 3
    /\ frames[1] = PatternOf({<<0, 0>>})
    /\ frames[2] = BlankMatrix
    /\ frames[3] = DenseMatrix
    /\ wav[1].data[2 * samples_frame] = <<0, 0>>
    /\ wav[1].data[2 * samples_frame + 1] = blocks[3].data[1]
    /\ wav[1].data[2 * samples_frame + 1] # <<0, 0>>

(***************************************************************************)
(* GUI: the handlers of MatrixGUI.  A handler is one step; lastOp names it, *)
(* msg is the message box it showed (or the traceback Tk printed for an     *)
(* exception no handler caught), wav and blocks what it wrote and           *)
(* synthesized.                                                             *)
(***************************************************************************)
pureVars == <<block, target, fitted, pts, stereo>>

\* a handler that wrote and synthesized nothing
Shown(op, m) ==
    /\ lastOp' = op
    /\ msg' = m
    /\ wav' = <<>>
    /\ blocks' = <<>>

WarningBoxes == {"warning: No frames to export!"}

ErrorBoxes == {"error: Failed to load", "error: Failed to export WAV"}

Traceback == "traceback: IndexError"

\* v ^ 1 on a Python int
Xor1(v) == IF v % 2 = 0 THEN v + 1 ELSE v - 1

\* (e.x - PADDING)//(CELL_SIZE+PADDING), likewise for e.y
CellOf(v, px) == (px - PADDING(v)) \div (CELL_SIZE(v) + PADDING(v))

InGrid(r, c) == 0 <= r /\ r < MAT_SIZE /\ 0 <= c /\ c < MAT_SIZE

\* self.frames[self.current_frame] raises IndexError
NoCurrentFrame == current_frame >= Len(frames)

CurrentMatrix == frames[current_frame + 1]

\* the cells the pointer is put on, and a point of the canvas border
ClickCells == {<<0, 0>>}

PixelIn(v, k) == PADDING(v) + k * (CELL_SIZE(v) + PADDING(v)) + 3

Events(v) == {<<PixelIn(v, rc[2]), PixelIn(v, rc[1])>> : rc \in ClickCells} \cup {<<0, 0>>}

\* MatrixGUI.__init__
Init ==
    /\ variant \in Variants
    /\ frames = <<BlankMatrix>>
    /\ current_frame = 0
    /\ draw_value = <<>>
    /\ project_path = <<>>
    /\ lastOp = "init"
    /\ NoOutput

\* _on_click / _on_canvas_click
OnClick ==
    \E e \in Events(variant) :
        LET c == CellOf(variant, e[1])
            r == CellOf(variant, e[2])
        IN  IF ~InGrid(r, c)
            THEN /\ Shown("_on_click", "none")
                 /\ UNCHANGED <<editorVars, pureVars>>
            ELSE IF NoCurrentFrame
            THEN /\ Shown("_on_click", Traceback)
                 /\ UNCHANGED <<editorVars, pureVars>>
            ELSE LET nv == Xor1(CurrentMatrix[r + 1][c + 1])
                 IN  /\ frames' = [frames EXCEPT ![current_frame + 1][r + 1][c + 1] = nv]
                     /\ draw_value' = <<nv>>
                     /\ Shown("_on_click", "none")
                     /\ UNCHANGED <<variant, current_frame, project_path, pureVars>>

\* _on_drag / _on_canvas_drag
OnDrag ==
    \E e \in Events(variant) :
        LET c == CellOf(variant, e[1])
            r == CellOf(variant, e[2])
        IN  IF ~(InGrid(r, c) /\ draw_value # <<>>)
            THEN /\ Shown("_on_drag", "none")
                 /\ UNCHANGED <<editorVars, pureVars>>
            ELSE IF NoCurrentFrame
            THEN /\ Shown("_on_drag", Traceback)
                 /\ UNCHANGED <<editorVars, pureVars>>
            ELSE /\ frames' = IF CurrentMatrix[r + 1][c + 1] # draw_value[1]
                              THEN [frames EXCEPT
                                       ![current_frame + 1][r + 1][c + 1] = draw_value[1]]
                              ELSE frames
                 /\ Shown("_on_drag", "none")
                 /\ UNCHANGED <<variant, current_frame, draw_value, project_path, pureVars>>

\* _prev_frame
PrevFrame ==
    /\ IF current_frame > 0
       THEN /\ current_frame' = current_frame - 1
            /\ Shown("_prev_frame", "none")
       ELSE /\ current_frame' = current_frame
            /\ Shown("_prev_frame", "info: Already first frame.")
    /\ UNCHANGED <<variant, frames, draw_value, project_path, pureVars>>

\* _new_frame: append a blank matrix and show it
AppendFrame ==
    /\ frames' = Append(frames, BlankMatrix)
    /\ current_frame' = Len(frames)

NewFrame ==
    /\ Len(frames) < MaxFrames
    /\ AppendFrame
    /\ Shown("_new_frame", "none")
    /\ UNCHANGED <<variant, draw_value, project_path, pureVars>>

\* _next_frame
NextFrame ==
    /\ IF current_frame < Len(frames) - 1
       THEN /\ current_frame' = current_frame + 1
            /\ frames' = frames
       ELSE /\ Len(frames) < MaxFrames
            /\ AppendFrame
    /\ Shown("_next_frame", "none")
    /\ UNCHANGED <<variant, draw_value, project_path, pureVars>>

\* _clear_frame (vectorscope.py)
ClearFrame ==
    /\ variant = "vectorscope"
    /\ IF NoCurrentFrame
       THEN /\ frames' = frames
            /\ Shown("_clear_frame", Traceback)
       ELSE /\ frames' = [frames EXCEPT ![current_frame + 1] = BlankMatrix]
            /\ Shown("_clear_frame", "none")
    /\ UNCHANGED <<variant, current_frame, draw_value, project_path, pureVars>>

\* _new_project (vectorscope.py), the answer to askyesno being yes or no
NewProject ==
    /\ variant = "vectorscope"
    /\ \E yes \in BOOLEAN :
           IF yes
           THEN /\ frames' = <<BlankMatrix>>
                /\ current_frame' = 0
                /\ project_path' = <<>>
           ELSE UNCHANGED <<frames, current_frame, project_path>>
    /\ Shown("_new_project", "none")
    /\ UNCHANGED <<variant, draw_value, pureVars>>

\* the paths a file dialog returns: "" when cancelled
DialogPaths == {"", "a.wcv"}

\* _save_project and _save_as_project (vectorscope.py): with no project path
\* the dialog is asked for one; json.dump writes the frames
SaveProject ==
    /\ variant = "vectorscope"
    /\ IF project_path # <<>>
       THEN /\ project_path' = project_path
            /\ Shown("_save_project", "info: Project Saved")
       ELSE \E path \in DialogPaths :
               IF path = ""
               THEN /\ project_path' = project_path
                    /\ Shown("_save_project", "none")
               ELSE /\ project_path' = <<path>>
                    /\ Shown("_save_project", "info: Project Saved")
    /\ UNCHANGED <<variant, frames, current_frame, draw_value, pureVars>>

SaveAsProject ==
    /\ variant = "vectorscope"
    /\ \E path \in DialogPaths :
           IF path = ""
           THEN /\ project_path' = project_path
                /\ Shown("_save_as_project", "none")
           ELSE /\ project_path' = <<path>>
                /\ Shown("_save_as_project", "info: Project Saved")
    /\ UNCHANGED <<variant, frames, current_frame, draw_value, pureVars>>

\* the matrix m with the value val at row r, column c
WithCell(m, r, c, val) == [m EXCEPT ![r + 1][c + 1] = val]

\* the files the user may open: isList says whether json.load succeeds and
\* data.get("frames") is a list; frames is that list
ProjectFiles ==
    { [isList |-> FALSE, frames |-> <<>>],
      [isList |-> TRUE,  frames |-> <<>>],
      [isList |-> TRUE,
       frames |-> <<WithCell(WithCell(BlankMatrix, 15, 15, 2), 15, 0, -1)>>] }

\* _load_project (vectorscope.py): frames, current_frame and project_path are
\* assigned before _draw, which raises IndexError on an empty list; the
\* except clause shows the error and restores nothing
LoadProject ==
    /\ variant = "vectorscope"
    /\ \E path \in DialogPaths, file \in ProjectFiles :
           IF path = ""
           THEN /\ Shown("_load_project", "none")
                /\ UNCHANGED <<frames, current_frame, project_path>>
           ELSE IF ~file.isList
           THEN /\ Shown("_load_project", "error: Failed to load")
                /\ UNCHANGED <<frames, current_frame, project_path>>
           ELSE /\ frames' = file.frames
                /\ current_frame' = 0
                /\ project_path' = <<path>>
                /\ Shown("_load_project",
                         IF Len(file.frames) = 0
                         THEN "error: Failed to load"
                         ELSE "info: Project Loaded")
    /\ UNCHANGED <<variant, draw_value, pureVars>>

EditorNoise == {"mean", "high"}

\* _export_wav / _on_export_click
ExportWav ==
    /\ \E out \in {"", "video.wav"} :
           IF out = ""
           THEN /\ Shown("_export_wav", "none")
           ELSE /\ lastOp' = "_export_wav: generate_video_wav_from_frames"
                /\ \E kind \in EditorNoise :
                       generate_video_wav_from_frames(frames, variant, kind)
    /\ UNCHANGED <<editorVars, pureVars>>

\* sf.write(path, data, SAMPLE_RATE, ...) of the image export.  The array has
\* `rows` rows (1,323,000 for a 30 s image); its rows are not kept.
SfWriteLong(rows) == [rate |-> SAMPLE_RATE, rows |-> rows, data |-> <<>>]

\* the number of rows of rep[:T] for rep = np.tile(block, (reps, 1))
FitRows(blk, T) ==
    IF blk.total = 0 THEN T ELSE Min(T, Ceil(T, blk.total) * blk.total)

\* _export_image (vectorscope.py)
ExportImage ==
    /\ variant = "vectorscope"
    /\ \E path \in {"", "frame.wav"} :
           IF path = ""
           THEN Shown("_export_image", "none")
           ELSE IF NoCurrentFrame
           THEN Shown("_export_image: write", Traceback)
           ELSE /\ lastOp' = "_export_image: write"
                /\ \E kind \in EditorNoise :
                       blocks' = <<create_base_block(CurrentMatrix, variant, kind)>>
                /\ wav' = <<SfWriteLong(FitRows(blocks'[1], total_samples))>>
                /\ msg' = "info: Image WAV generated"
    /\ UNCHANGED <<editorVars, pureVars>>

Next ==
    \/ OnClick
    \/ OnDrag
    \/ PrevFrame
    \/ NewFrame
    \/ NextFrame
    \/ ClearFrame
    \/ NewProject
    \/ SaveProject
    \/ SaveAsProject
    \/ LoadProject
    \/ ExportWav
    \/ ExportImage

Spec == Init /\ [][Next]_vars

\* the matrix holds a cell value other than 0 and 1
HasInvalidCell(mat) ==
    \E rc \in Cells(Height(mat)) : mat[rc[1] + 1][rc[2] + 1] \notin {0, 1}

\* C2: the static export of a pattern with no active cell (create_base_block
\* returned (None, 0)) shows a warning and never reaches the WAV write.
EmptyImageWarnsAndWritesNothing ==
    (lastOp = "_export_image: write" /\ blocks # <<>> /\ blocks[1].none) =>
        /\ wav = <<>>
        /\ msg \in WarningBoxes

\* C5: an export of a pattern holding a cell value other than 0 and 1 fails
\* with an error, and nothing is synthesized or written from that pattern.
InvalidCellsRejected ==
    (\/ /\ lastOp = "_export_wav: generate_video_wav_from_frames"
        /\ \E i \in 1..Len(frames) : HasInvalidCell(frames[i])
     \/ /\ lastOp = "_export_image: write"
        /\ ~NoCurrentFrame
        /\ HasInvalidCell(CurrentMatrix)) =>
        /\ wav = <<>>
        /\ blocks = <<>>
        /\ msg \in ErrorBoxes

(***************************************************************************)
(* BINARY64: the arithmetic of Python floats on the values the conversion  *)
(* functions meet.  A float is a sign and a magnitude; the magnitude is a  *)
(* natural number of units 2^-FracBits, written in four limbs of 16 bits,  *)
(* least significant first.  Every operation computes the exact result and *)
(* rounds it to MantissaBits significant bits, ties to even.  All values   *)
(* here are at most 2.0 and are multiples of 2^-FracBits, for grids up to  *)
(* 32 x 32.                                                                *)
(***************************************************************************)
MantissaBits == 53

FracBits == MantissaBits + 5

LimbBase == 2^16

BigZero == <<0, 0, 0, 0>>

\* n * 2^FracBits for a small natural n (n < 2^6)
BigOfInt(n) == <<0, 0, 0, n * 2^(FracBits - 48)>>

BigAdd(a, b) ==
    LET s1 == a[1] + b[1]
        s2 == a[2] + b[2] + (s1 \div LimbBase)
        s3 == a[3] + b[3] + (s2 \div LimbBase)
        s4 == a[4] + b[4] + (s3 \div LimbBase)
    IN  <<s1 % LimbBase, s2 % LimbBase, s3 % LimbBase, s4 % LimbBase>>

\* a - b for a >= b
BigSub(a, b) ==
    LET d1 == a[1] - b[1]
        w1 == IF d1 < 0 THEN 1 ELSE 0
        d2 == a[2] - b[2] - w1
        w2 == IF d2 < 0 THEN 1 ELSE 0
        d3 == a[3] - b[3] - w2
        w3 == IF d3 < 0 THEN 1 ELSE 0
        d4 == a[4] - b[4] - w3
    IN  <<d1 + w1 * LimbBase, d2 + w2 * LimbBase, d3 + w3 * LimbBase, d4>>

BigLess(a, b) ==
    \/ a[4] < b[4]
    \/ a[4] = b[4] /\ a[3] < b[3]
    \/ a[4] = b[4] /\ a[3] = b[3] /\ a[2] < b[2]
    \/ a[4] = b[4] /\ a[3] = b[3] /\ a[2] = b[2] /\ a[1] < b[1]

\* quotient and remainder of a by a small natural d > 0 (d < 2^14)
BigDivSmall(a, d) ==
    LET c4 == a[4]
        c3 == (c4 % d) * LimbBase + a[3]
        c2 == (c3 % d) * LimbBase + a[2]
        c1 == (c2 % d) * LimbBase + a[1]
    IN  [q |-> <<c1 \div d, c2 \div d, c3 \div d, c4 \div d>>, rem |-> c1 % d]

\* the number of significant bits of a limb
LimbBits(n) == CHOOSE k \in 0..16 : n < 2^k /\ (k = 0 \/ 2^(k - 1) <= n)

BitLen(a) ==
    IF a[4] # 0 THEN 48 + LimbBits(a[4])
    ELSE IF a[3] # 0 THEN 32 + LimbBits(a[3])
    ELSE IF a[2] # 0 THEN 16 + LimbBits(a[2])
    ELSE LimbBits(a[1])

\* a kept as it is, no rounding
NoRound(a, sticky) == a

\* a with something more below its last unit if sticky, rounded to
\* MantissaBits significant bits, ties to even (fewer than 16 bits are dropped)
RoundBig(a, sticky) ==
    LET d == BitLen(a) - MantissaBits
    IN  IF d <= 0
        THEN a
        ELSE LET p    == 2^d
                 low  == a[1] % p
                 kept == <<a[1] - low, a[2], a[3], a[4]>>
                 odd  == (a[1] \div p) % 2 = 1
                 up   == \/ 2 * low > p
                         \/ 2 * low = p /\ (sticky \/ odd)
             IN  IF up THEN BigAdd(kept, <<p, 0, 0, 0>>) ELSE kept

\* a float: zero has no sign (0.0 == -0.0)
F64(neg, mag) == [neg |-> neg /\ mag # BigZero, mag |-> mag]

FOne == F64(FALSE, BigOfInt(1))

FNeg(u) == F64(~u.neg, u.mag)

\* u + v
FAdd(u, v) ==
    IF u.neg = v.neg
    THEN F64(u.neg, RoundBig(BigAdd(u.mag, v.mag), FALSE))
    ELSE IF BigLess(u.mag, v.mag)
    THEN F64(v.neg, RoundBig(BigSub(v.mag, u.mag), FALSE))
    ELSE F64(u.neg, RoundBig(BigSub(u.mag, v.mag), FALSE))

\* u - v
FSub(u, v) == FAdd(u, FNeg(v))

\* n / d for Python ints n >= 0, d > 0: the quotient correctly rounded
FDivInt(n, d) ==
    LET qr == BigDivSmall(BigOfInt(n), d)
    IN  F64(FALSE, RoundBig(qr.q, qr.rem # 0))

\* u / 2.0: exact, the magnitudes here being even
FHalf(u) == F64(u.neg, BigDivSmall(u.mag, 2).q)

\* |u - v| as a magnitude, exactly
FDistance(u, v) ==
    IF u.neg = v.neg
    THEN IF BigLess(u.mag, v.mag) THEN BigSub(v.mag, u.mag) ELSE BigSub(u.mag, v.mag)
    ELSE BigAdd(u.mag, v.mag)

\* x = (2 * c) / (W - 1) - 1.0
X64(c, W) == FSub(FDivInt(2 * c, W - 1), FOne)

\* y = -((2 * r) / (H - 1) - 1.0)
Y64(r, H) == FNeg(FSub(FDivInt(2 * r, H - 1), FOne))

\* the two amplitudes exchanged
xy_to_stereo_swapped(x, y) == <<FHalf(FAdd(x, y)), FHalf(FSub(y, x))>>

\* (L_amp, R_amp) = ((y - x) / 2.0, (x + y) / 2.0)
xy_to_stereo_64(x, y) == <<FHalf(FSub(y, x)), FHalf(FAdd(x, y))>>

\* the visualizer's transform: x = R_amp - L_amp, y = R_amp + L_amp
Visualizer(left, right) == <<FSub(right, left), FAdd(right, left)>>

(***************************************************************************)
(* SpecStereo: xy_to_stereo applied to the point of every cell of the      *)
(* MAT_SIZE x MAT_SIZE grid and of the N x N grids, 2 <= N <= MaxN         *)
(***************************************************************************)
\* the n x n pattern whose only active cell is rc
OneCell(n, rc) == MatrixOf(n, [sd \in Cells(n) |-> IF sd = rc THEN 1 ELSE 0])

InitStereo ==
    /\ variant \in Variants
    /\ \E n \in {MAT_SIZE} \cup (2..MaxN) :
           \E rc \in Cells(n) : frames = <<OneCell(n, rc)>>
    /\ current_frame = 0
    /\ draw_value = <<>>
    /\ project_path = <<>>
    /\ lastOp = "init"
    /\ NoOutput

\* amps = [xy_to_stereo(x, y) for x, y in pts] on the one point of the pattern
CallXyToStereo ==
    /\ lastOp = "init"
    /\ lastOp' = "xy_to_stereo"
    /\ LET mat == frames[1]
           rc  == CHOOSE sd \in Cells(Height(mat)) :
                      IsActive(variant, mat[sd[1] + 1][sd[2] + 1])
           x   == X64(rc[2], Width(mat))
           y   == Y64(rc[1], Height(mat))
           lr  == xy_to_stereo_64(x, y)
       IN  stereo' = [x |-> x, y |-> y, left |-> lr[1], right |-> lr[2]]
    /\ UNCHANGED <<editorVars, msg, wav, blocks, block, target, fitted, pts>>

NextStereo == CallXyToStereo

SpecStereo == InitStereo /\ [][NextStereo]_vars

\* the active cell of the one-cell pattern
TheCell(mat) == CHOOSE sd \in Cells(Height(mat)) : mat[sd[1] + 1][sd[2] + 1] = 1

\* C11 as stated: for every image point (x, y) of the mapper, with
\* (left, right) = xy_to_stereo(x, y), right - left = x and right + left = y
\* exactly.
StereoRoundTripExact ==
    lastOp = "xy_to_stereo" =>
        Visualizer(stereo.left, stereo.right) = <<stereo.x, stereo.y>>

\* C11 amended: right - left and right + left are x and y to within 2^-53
\* each, and exactly so for the points of the four corner cells.
StereoRoundTripWithinRounding ==
    lastOp = "xy_to_stereo" =>
        LET back == Visualizer(stereo.left, stereo.right)
            tol  == <<2^(FracBits - 53), 0, 0, 0>>
            N    == Height(frames[1])
            rc   == TheCell(frames[1])
        IN  /\ ~BigLess(tol, FDistance(back[1], stereo.x))
            /\ ~BigLess(tol, FDistance(back[2], stereo.y))
            /\ (rc[1] \in {0, N - 1} /\ rc[2] \in {0, N - 1}) =>
                   back = <<stereo.x, stereo.y>>

\* cell (0, 3) of the 16 x 16 grid: x = -0.6, y = 1.0, and right - left is
\* not x
StereoRoundTripWitness ==
    /\ lastOp = "xy_to_stereo"
    /\ Height(frames[1]) = MAT_SIZE
    /\ TheCell(frames[1]) = <<0, 3>>
    /\ stereo.y = FOne
    /\ Visualizer(stereo.left, stereo.right)[1] # stereo.x
    /\ Visualizer(stereo.left, stereo.right)[2] = stereo.y

\* C12: after any sequence of editor operations (click, drag, Prev Frame,
\* Next Frame, New Frame, Clear Frame, New Project, Open, a load of a file with
\* an empty frames list or one that fails part-way included) the frame list is
\* non-empty and 0 <= current_frame < len(frames).
CurrentFrameExists ==
    /\ Len(frames) > 0
    /\ 0 <= current_frame
    /\ current_frame < Len(frames)

====
